---- MODULE Spec2Model ----
(***************************************************************************)
(* Model of the HSM dispatch core of heimlig (src/heimlig/src/hsm/core.rs): *)
(* the Builder that assembles the client and worker tables, and            *)
(* Core::execute, which forwards one client request to the worker that     *)
(* advertises its request type.  Clients and workers are the tasks at the  *)
(* other end of the queues.                                                *)
(***************************************************************************)
EXTENDS Naturals, Sequences, FiniteSets

(***************************************************************************)
(* Bounds of the model.  MAX_CLIENTS and MAX_WORKERS are the const generic *)
(* parameters of Core/Builder, instantiated small.                         *)
(***************************************************************************)
MAX_CLIENTS == 2
MAX_WORKERS == 2
\* capacity of a client's request queue (the queue behind the Peekable)
ClientQueueCap == 1
\* largest capacity of a worker's request queue
WorkerQueueCap == 2
\* capacity of a worker's response queue
ResponseQueueCap == 1
\* number of requests with fresh request ids a client submits
MaxReq == 2

\* RequestType tags (jobs::RequestType); two of the enumeration
RequestType == {"ImportKey", "GetRandom"}

ClientIdx == 0 .. (MAX_CLIENTS - 1)
WorkerIdx == 0 .. (MAX_WORKERS - 1)
\* the value the client API writes into the client_id field of a request
ClientIdValues == {0}

VARIABLES
    pc,               \* "builder" | "idle" | "select" | "next" | "panicked"
    num_clients,      \* clients.len()
    num_workers,      \* workers.len()
    req_types,        \* WorkerChannel.req_types, per worker index
    sink_cap,         \* capacity of the queue behind WorkerChannel.requests
    key_store,        \* Core.key_store: "none", or the state of its mutex
    client_requests,  \* the stream behind ClientChannel.requests
    peeked,           \* the item buffered by ClientChannel.requests (Peekable)
    stream_ended,     \* the stream behind ClientChannel.requests has ended
    client_responses, \* ClientChannel.responses
    worker_requests,  \* WorkerChannel.requests
    worker_responses, \* the stream behind WorkerChannel.responses
    last_client_id,
    last_worker_id,
    sel_client,       \* client_index while pc = "next", else 0
    sel_worker,       \* worker_channel while pc = "next", else 0
    nsub,             \* history: tracked requests submitted, per client
    log               \* history: the forwards of tracked requests, in order

vars == <<pc, num_clients, num_workers, req_types, sink_cap, key_store,
          client_requests, peeked, stream_ended,
          client_responses, worker_requests, worker_responses, last_client_id,
          last_worker_id, sel_client, sel_worker, nsub, log>>

topology == <<num_clients, num_workers, req_types, sink_cap, key_store>>
cursors == <<last_client_id, last_worker_id>>
queues == <<client_requests, peeked, stream_ended, client_responses,
            worker_requests, worker_responses>>
selection == <<sel_client, sel_worker>>
history == <<nsub, log>>

Min(S) == CHOOSE x \in S : \A y \in S : x <= y

\* a Request: its type tag, the client_id and request_id the client wrote,
\* and the history field origin, the table index of the channel it came in on
Requests ==
    [type : RequestType, client_id : ClientIdValues, request_id : 0 .. MaxReq,
     origin : ClientIdx]

\* a Response as a worker produces it
Responses == [client_id : ClientIdValues, request_id : 0 .. MaxReq]

BoundedSeq(S, n) == UNION {[1 .. k -> S] : k \in 0 .. n}

\* the fields of Core, ClientChannel and WorkerChannel
TypeOK ==
    /\ pc \in {"builder", "idle", "select", "next", "panicked"}
    /\ num_clients \in 0 .. MAX_CLIENTS
    /\ num_workers \in 0 .. MAX_WORKERS
    /\ req_types \in [WorkerIdx -> SUBSET RequestType]
    /\ sink_cap \in [WorkerIdx -> 0 .. WorkerQueueCap]
    /\ key_store \in {"none", "free", "locked"}
    /\ client_requests \in [ClientIdx -> BoundedSeq(Requests, ClientQueueCap)]
    /\ peeked \in [ClientIdx -> BoundedSeq(Requests, 1)]
    /\ stream_ended \in [ClientIdx -> BOOLEAN]
    /\ client_responses \in [ClientIdx -> BoundedSeq(Responses, 0)]
    /\ worker_requests \in [WorkerIdx -> BoundedSeq(Requests, WorkerQueueCap)]
    /\ worker_responses \in [WorkerIdx -> BoundedSeq(Responses, ResponseQueueCap)]
    /\ last_client_id \in ClientIdx
    /\ last_worker_id \in WorkerIdx
    /\ sel_client \in ClientIdx
    /\ sel_worker \in WorkerIdx
    /\ nsub \in [ClientIdx -> 0 .. MaxReq]
    /\ Len(log) <= MAX_CLIENTS * MaxReq

(***************************************************************************)
(* Builder                                                                 *)
(***************************************************************************)
Init ==
    /\ pc = "builder"
    /\ num_clients = 0
    /\ num_workers = 0
    /\ req_types = [w \in WorkerIdx |-> {}]
    /\ sink_cap = [w \in WorkerIdx |-> 0]
    /\ key_store = "none"
    /\ client_requests = [c \in ClientIdx |-> <<>>]
    /\ peeked = [c \in ClientIdx |-> <<>>]
    /\ stream_ended = [c \in ClientIdx |-> FALSE]
    /\ client_responses = [c \in ClientIdx |-> <<>>]
    /\ worker_requests = [w \in WorkerIdx |-> <<>>]
    /\ worker_responses = [w \in WorkerIdx |-> <<>>]
    /\ last_client_id = 0
    /\ last_worker_id = 0
    /\ sel_client = 0
    /\ sel_worker = 0
    /\ nsub = [c \in ClientIdx |-> 0]
    /\ log = <<>>

\* Builder::with_client: push a ClientChannel, panic when the table is full
with_client ==
    /\ pc = "builder"
    /\ IF num_clients < MAX_CLIENTS
         THEN /\ num_clients' = num_clients + 1
              /\ pc' = pc
         ELSE /\ pc' = "panicked"
              /\ num_clients' = num_clients
    /\ UNCHANGED <<num_workers, req_types, sink_cap, key_store, cursors, queues,
                   selection, history>>

\* Builder::with_keystore: self.key_store = Some(key_store); the mutex passed
\* in is not held
with_keystore ==
    /\ pc = "builder"
    /\ key_store' = "free"
    /\ UNCHANGED <<pc, num_clients, num_workers, req_types, sink_cap, cursors,
                   queues, selection, history>>

\* a duplicate check that compares whole type lists instead of their tags
TypeAlreadyClaimedSameList(types) ==
    \E w \in WorkerIdx : w < num_workers /\ req_types[w] = types

\* the duplicate check of Builder::with_worker
TypeAlreadyClaimed(types) ==
    \E w \in WorkerIdx : w < num_workers /\ req_types[w] \cap types # {}

\* Builder::with_worker: panic on a claimed type or a full table, else push;
\* cap is the capacity of the queue behind the request sink passed in
with_worker(types, cap) ==
    /\ pc = "builder"
    /\ IF TypeAlreadyClaimed(types) \/ num_workers >= MAX_WORKERS
         THEN /\ pc' = "panicked"
              /\ UNCHANGED <<num_workers, req_types, sink_cap>>
         ELSE /\ req_types' = [req_types EXCEPT ![num_workers] = types]
              /\ sink_cap' = [sink_cap EXCEPT ![num_workers] = cap]
              /\ num_workers' = num_workers + 1
              /\ pc' = pc
    /\ UNCHANGED <<num_clients, key_store, cursors, queues, selection, history>>

\* Builder::build: the Core, both cursors 0, key_store as the Builder has it
build ==
    /\ pc = "builder"
    /\ pc' = "idle"
    /\ last_client_id' = 0
    /\ last_worker_id' = 0
    /\ UNCHANGED <<topology, queues, selection, history>>

(***************************************************************************)
(* Core::process_client_requests                                           *)
(***************************************************************************)
Running == pc \in {"idle", "select", "next"}

\* split_at_mut((last_client_id + 1) % number_of_clients), right then left:
\* the client table index at position p of clients_iterator
Rotated(p) == (((last_client_id + 1) % num_clients) + p) % num_clients

\* requests.peek() is Ready: an item is buffered or the stream has one
HasHead(c) == peeked[c] # <<>> \/ client_requests[c] # <<>>

\* the item requests.peek() yields: the buffered one, else the stream's head
PeekHead(c) == IF peeked[c] # <<>> THEN peeked[c][1] ELSE client_requests[c][1]

\* the workers whose req_types contain request_type
Claiming(request_type) ==
    {w \in WorkerIdx : w < num_workers /\ request_type \in req_types[w]}

\* a lookup that takes the first worker of the table, whatever it advertises
WorkerForIgnoresType(request_type) == Min({w \in WorkerIdx : w < num_workers})

\* workers.iter().find(|c| c.req_types.contains(&request_type)).expect(..)
WorkerFor(request_type) == Min(Claiming(request_type))

\* requests.poll_ready_unpin(cx) of a worker's request sink
SinkReady(w) == Len(worker_requests[w]) < sink_cap[w]

\* a poll that takes an ended stream for one that has nothing yet
PollClientSkipsEnded(c) ==
    IF ~HasHead(c) THEN "pending"
    ELSE IF Claiming(PeekHead(c).type) = {} THEN "panic"
    ELSE IF SinkReady(WorkerFor(PeekHead(c).type)) THEN "ready"
    ELSE "pending"

\* one poll of the future built for client c: peek (None from an ended
\* stream: expect("requests stream died")), then resolve the worker (expect),
\* then poll_ready of its sink
PollClient(c) ==
    IF ~HasHead(c) THEN (IF stream_ended[c] THEN "died" ELSE "pending")
    ELSE IF Claiming(PeekHead(c).type) = {} THEN "panic"
    ELSE IF SinkReady(WorkerFor(PeekHead(c).type)) THEN "ready"
    ELSE "pending"

\* select_array polls the futures in array order and stops at the first one
\* that does not return Pending
Decided == {p \in 0 .. (num_clients - 1) : PollClient(Rotated(p)) # "pending"}
Polled == IF Decided = {} THEN 0 .. (num_clients - 1) ELSE 0 .. Min(Decided)
PolledClients == {Rotated(p) : p \in Polled}

\* peek() moves the head of the stream into the Peekable's buffer
PeekedAfterPoll ==
    [c \in ClientIdx |->
        IF c \in PolledClients /\ peeked[c] = <<>> /\ client_requests[c] # <<>>
          THEN <<client_requests[c][1]>> ELSE peeked[c]]
StreamAfterPoll ==
    [c \in ClientIdx |->
        IF c \in PolledClients /\ peeked[c] = <<>> /\ client_requests[c] # <<>>
          THEN Tail(client_requests[c]) ELSE client_requests[c]]

\* self.last_client_id = (client_index + self.last_client_id + 1) % number_of_clients
AdvanceCursor(client_index) == (client_index + last_client_id + 1) % num_clients

\* the table index used in self.clients[client_index] to dequeue
DequeueIndex(client_index) == client_index

\* a next() that yields the buffered item without taking it out of the buffer
PeekableNextKeepsItem(buffer, stream) ==
    IF buffer # <<>>
      THEN [item |-> buffer[1], buffer |-> buffer, stream |-> stream]
      ELSE [item |-> stream[1], buffer |-> buffer, stream |-> Tail(stream)]

\* a next() that reads the stream and overlooks the buffered item
PeekableNextStreamFirst(buffer, stream) ==
    IF stream # <<>>
      THEN [item |-> stream[1], buffer |-> buffer, stream |-> Tail(stream)]
      ELSE [item |-> buffer[1], buffer |-> <<>>, stream |-> stream]

\* Peekable::next on (buffer, stream): the buffered item first
PeekableNext(buffer, stream) ==
    IF buffer # <<>>
      THEN [item |-> buffer[1], buffer |-> <<>>, stream |-> stream]
      ELSE [item |-> stream[1], buffer |-> buffer, stream |-> Tail(stream)]

\* worker_channel.requests.send(request)
SinkSend(sink, request) == Append(sink, request)

\* every client has a head request and all heads resolve to one ready worker
AllFeedOneWorker ==
    /\ \A c \in ClientIdx : c < num_clients => PollClient(c) = "ready"
    /\ \A c, d \in ClientIdx :
          (c < num_clients /\ d < num_clients)
              => WorkerFor(PeekHead(c).type) = WorkerFor(PeekHead(d).type)

\* the history follows the requests with request ids 1 .. MaxReq; a request
\* with request id 0 is one a client sends without being followed
Tracked(request) == request.request_id > 0

Record(event) == IF Tracked(event.request) THEN Append(log, event) ELSE log

\* requests.next().await on client `from`, then requests.send(request).await
\* on worker w; pk and st are the buffers and streams the dequeue starts from
DequeueAndSend(from, w, pk, st, allsame) ==
    IF pk[from] = <<>> /\ st[from] = <<>>
      THEN IF stream_ended[from]
             THEN \* next() yields None: expect("request stream died")
                  /\ pc' = "panicked"
                  /\ sel_client' = 0
                  /\ sel_worker' = 0
                  /\ peeked' = pk
                  /\ client_requests' = st
                  /\ UNCHANGED <<worker_requests, log>>
             ELSE \* next() is Pending: the call stays suspended at this await
                  /\ pc' = "next"
                  /\ sel_client' = from
                  /\ sel_worker' = w
                  /\ peeked' = pk
                  /\ client_requests' = st
                  /\ UNCHANGED <<worker_requests, log>>
      ELSE LET got == PeekableNext(pk[from], st[from]) IN
           /\ pc' = "idle"
           /\ sel_client' = 0
           /\ sel_worker' = 0
           /\ peeked' = [pk EXCEPT ![from] = got.buffer]
           /\ client_requests' = [st EXCEPT ![from] = got.stream]
           /\ worker_requests' =
                 [worker_requests EXCEPT ![w] = SinkSend(@, got.item)]
           /\ log' = Record([client |-> from, worker |-> w,
                             request |-> got.item, allsame |-> allsame])

\* a remainder that is checked and never aborts
RemainderChecked == FALSE

\* (self.last_client_id + 1) % number_of_clients aborts: the divisor is 0
RemainderByZero == num_clients = 0

\* process_client_requests up to its first suspension or its return
PollClients ==
    IF RemainderByZero
      THEN \* (last_client_id + 1) % 0
           /\ pc' = "panicked"
           /\ UNCHANGED <<cursors, selection, client_requests, peeked,
                          worker_requests, log>>
      ELSE IF Decided = {}
        THEN \* select_array is Pending
             /\ pc' = "select"
             /\ peeked' = PeekedAfterPoll
             /\ client_requests' = StreamAfterPoll
             /\ UNCHANGED <<cursors, selection, worker_requests, log>>
        ELSE LET client_index == Min(Decided)
                 head == PeekHead(Rotated(client_index))
             IN  IF PollClient(Rotated(client_index)) \in {"panic", "died"}
                   THEN \* expect("Failed to find worker channel for request type"),
                        \* or expect("requests stream died")
                        /\ pc' = "panicked"
                        /\ peeked' = PeekedAfterPoll
                        /\ client_requests' = StreamAfterPoll
                        /\ UNCHANGED <<cursors, selection, worker_requests, log>>
                   ELSE /\ last_client_id' = AdvanceCursor(client_index)
                        /\ UNCHANGED last_worker_id
                        /\ DequeueAndSend(DequeueIndex(client_index),
                                          WorkerFor(head.type), PeekedAfterPoll,
                                          StreamAfterPoll, AllFeedOneWorker)

\* Core::execute called by the host task
ExecuteCall ==
    /\ pc = "idle"
    /\ PollClients
    /\ UNCHANGED <<topology, stream_ended, client_responses, worker_responses,
                   nsub>>

\* the suspended select_array is polled again
SelectWake ==
    /\ pc = "select"
    /\ PollClients
    /\ UNCHANGED <<topology, stream_ended, client_responses, worker_responses,
                   nsub>>

\* the suspended requests.next() is polled again once its stream has an item
\* or has ended
NextWake ==
    /\ pc = "next"
    /\ \/ peeked[sel_client] # <<>>
       \/ client_requests[sel_client] # <<>>
       \/ stream_ended[sel_client]
    /\ DequeueAndSend(sel_client, sel_worker, peeked, client_requests, FALSE)
    /\ UNCHANGED <<topology, cursors, stream_ended, client_responses,
                   worker_responses, nsub>>

\* buffers that live in the future of execute() and go when it is dropped
BuffersDroppedWithFuture == [c \in ClientIdx |-> <<>>]

\* the Peekable buffers after the future of execute() is dropped: a Peekable
\* is a field of its ClientChannel, the futures only borrow it
BuffersAfterCancel == peeked

\* the host drops the future of execute() at one of its awaits: at
\* select_array(..).await, or at requests.next().await, where last_client_id
\* is already written.  requests.send(request).await finds the capacity that
\* poll_ready reported and does not suspend with the request in hand.
Cancel ==
    /\ pc \in {"select", "next"}
    /\ pc' = "idle"
    /\ sel_client' = 0
    /\ sel_worker' = 0
    /\ peeked' = BuffersAfterCancel
    /\ UNCHANGED <<topology, cursors, client_requests, stream_ended,
                   client_responses, worker_requests, worker_responses, history>>

(***************************************************************************)
(* The tasks at the other end of the queues                                *)
(***************************************************************************)
\* a client sends a request while the core runs (a request sent while the
\* Builder is still at work waits in the queue just the same); origin is a
\* history field: the table index of the channel the request was sent on
Submit(c, request_type, client_id, request_id) ==
    /\ Running
    /\ c < num_clients
    /\ ~stream_ended[c]
    /\ Len(client_requests[c]) < ClientQueueCap
    /\ client_requests' =
          [client_requests EXCEPT ![c] =
              Append(@, [type |-> request_type, client_id |-> client_id,
                         request_id |-> request_id, origin |-> c])]
    /\ nsub' = [nsub EXCEPT ![c] = IF request_id > 0 THEN @ + 1 ELSE @]
    /\ UNCHANGED <<pc, topology, cursors, selection, peeked, stream_ended,
                   client_responses, worker_requests, worker_responses, log>>

\* a client drops its end of its request queue: once the requests in the
\* queue are taken, the stream yields None
CloseStream(c) ==
    /\ Running
    /\ c < num_clients
    /\ ~stream_ended[c]
    /\ stream_ended' = [stream_ended EXCEPT ![c] = TRUE]
    /\ UNCHANGED <<pc, topology, cursors, selection, client_requests, peeked,
                   client_responses, worker_requests, worker_responses, history>>

\* another task takes the key store's mutex, and gives it back
KeyStoreLock ==
    /\ Running
    /\ key_store = "free"
    /\ key_store' = "locked"
    /\ UNCHANGED <<pc, num_clients, num_workers, req_types, sink_cap, cursors,
                   queues, selection, history>>

KeyStoreUnlock ==
    /\ Running
    /\ key_store = "locked"
    /\ key_store' = "free"
    /\ UNCHANGED <<pc, num_clients, num_workers, req_types, sink_cap, cursors,
                   queues, selection, history>>

\* the next request of client c, with a fresh request id
SubmitFresh(c, request_type, client_id) ==
    /\ nsub[c] < MaxReq
    /\ Submit(c, request_type, client_id, nsub[c] + 1)

\* a request of client c that the history does not follow
SubmitMore(c, request_type, client_id) == Submit(c, request_type, client_id, 0)

\* a worker takes the head request and produces zero or one response that
\* echoes client_id and request_id
WorkerExecute(w, respond) ==
    /\ Running
    /\ w < num_workers
    /\ worker_requests[w] # <<>>
    /\ worker_requests' = [worker_requests EXCEPT ![w] = Tail(@)]
    /\ IF respond
         THEN /\ Len(worker_responses[w]) < ResponseQueueCap
              /\ worker_responses' =
                    [worker_responses EXCEPT ![w] =
                        Append(@, [client_id |-> worker_requests[w][1].client_id,
                                   request_id |-> worker_requests[w][1].request_id])]
         ELSE UNCHANGED worker_responses
    /\ UNCHANGED <<pc, topology, cursors, selection, client_requests, peeked,
                   stream_ended, client_responses, nsub, log>>

(***************************************************************************)
(* Specifications                                                          *)
(***************************************************************************)
Next ==
    \/ with_client
    \/ \E types \in (SUBSET RequestType) \ {{}}, cap \in 1 .. WorkerQueueCap :
          with_worker(types, cap)
    \/ build
    \/ ExecuteCall
    \/ SelectWake
    \/ NextWake
    \/ \E c \in ClientIdx, t \in RequestType, id \in ClientIdValues :
          SubmitFresh(c, t, id)
    \/ \E w \in WorkerIdx, respond \in BOOLEAN : WorkerExecute(w, respond)

Spec == Init /\ [][Next]_vars

\* the same system with clients that submit without end, their requests not
\* followed by the history
LiveNext ==
    \/ with_client
    \/ \E types \in (SUBSET RequestType) \ {{}}, cap \in 1 .. WorkerQueueCap :
          with_worker(types, cap)
    \/ build
    \/ ExecuteCall
    \/ SelectWake
    \/ NextWake
    \/ \E c \in ClientIdx, t \in RequestType, id \in ClientIdValues :
          SubmitMore(c, t, id)
    \/ \E w \in WorkerIdx, respond \in BOOLEAN : WorkerExecute(w, respond)

\* the host task calls execute() in a loop and the executor polls a woken
\* future again; the worker tasks run
Fairness ==
    /\ WF_vars(ExecuteCall)
    /\ WF_vars(SelectWake)
    /\ WF_vars(NextWake)
    /\ WF_vars(\E w \in WorkerIdx, respond \in BOOLEAN : WorkerExecute(w, respond))

FairSpec == Init /\ [][Next]_vars /\ Fairness

LiveSpec == Init /\ [][LiveNext]_vars /\ Fairness

\* the system with a host that may attach a key store, whose mutex other
\* tasks take and release
KeyNext ==
    \/ Next
    \/ with_keystore
    \/ KeyStoreLock
    \/ KeyStoreUnlock

KeySpec == Init /\ [][KeyNext]_vars

\* the system with a host that may drop the future of execute() while it is
\* suspended, and call execute() again
CancelNext ==
    \/ Next
    \/ Cancel

CancelSpec == Init /\ [][CancelNext]_vars

\* the system with clients that may end their request streams
EndNext ==
    \/ Next
    \/ \E c \in ClientIdx : CloseStream(c)

EndSpec == Init /\ [][EndNext]_vars
(***************************************************************************)
(* Properties                                                              *)
(***************************************************************************)
Clients == {c \in ClientIdx : c < num_clients}
Workers == {w \in WorkerIdx : w < num_workers}

\* every request type is advertised by some worker, so every request a
\* client can submit is
AllTypesAdvertised == \A t \in RequestType : Claiming(t) # {}

\* C1: after any sequence of execute() calls, on a topology that advertises
\* every request type, every request that was placed into a worker's request
\* sink has a type in that worker's req_types.
C1_SinkTypesAdvertised ==
    (pc # "builder" /\ AllTypesAdvertised)
        => \A i \in 1 .. Len(log) :
              log[i].request.type \in req_types[log[i].worker]
\* the requests client c has pending, oldest first, given the buffers pk and
\* the streams st
QueuedOf(pk, st, c) == pk[c] \o st[c]
Queued(c) == QueuedOf(peeked, client_requests, c)

\* this step removes the oldest pending request of client c
DequeuesFrom(c) ==
    /\ Queued(c) # <<>>
    /\ QueuedOf(peeked', client_requests', c) = Tail(Queued(c))

\* this step appends request r to the request sink of worker w
SinkGets(w, r) == worker_requests'[w] = Append(worker_requests[w], r)

\* this step appends to client c's response sink a response to request r
RespondsTo(c, r) ==
    /\ Len(client_responses'[c]) = Len(client_responses[c]) + 1
    /\ client_responses'[c][Len(client_responses'[c])].request_id = r.request_id

\* the number of indices of seq whose element satisfies Test
Count(seq, Test(_)) == Cardinality({i \in 1 .. Len(seq) : Test(seq[i])})

\* how often the k-th request of client c is pending, was put into a worker
\* sink, and was answered by the core
TimesQueued(c, k) ==
    LET Is(r) == r.origin = c /\ r.request_id = k IN Count(Queued(c), Is)
TimesForwarded(c, k) ==
    LET Is(e) == e.request.origin = c /\ e.request.request_id = k
    IN  Count(log, Is)
TimesAnswered(c, k) ==
    LET Is(r) == r.request_id = k IN Count(client_responses[c], Is)

\* what one step does to the queues: a request leaves a client queue exactly
\* when it is appended to exactly one worker sink or answered in its client's
\* response sink, and nothing else is appended anywhere
ExactlyOnceStep ==
    /\ \A c \in ClientIdx :
          Len(QueuedOf(peeked', client_requests', c)) < Len(Queued(c))
              => /\ DequeuesFrom(c)
                 /\ Cardinality({w \in WorkerIdx : SinkGets(w, Queued(c)[1])})
                      + (IF RespondsTo(c, Queued(c)[1]) THEN 1 ELSE 0) = 1
    /\ \A w \in WorkerIdx :
          Len(worker_requests'[w]) > Len(worker_requests[w])
              => \E c \in ClientIdx :
                    DequeuesFrom(c) /\ SinkGets(w, Queued(c)[1])
    /\ \A c \in ClientIdx :
          client_responses'[c] # client_responses[c]
              => DequeuesFrom(c) /\ RespondsTo(c, Queued(c)[1])
    /\ Cardinality({w \in WorkerIdx :
                       Len(worker_requests'[w]) > Len(worker_requests[w])}) <= 1

\* every request submitted is pending, forwarded or answered, exactly once
Conservation ==
    \A c \in ClientIdx : \A k \in 1 .. nsub[c] :
        TimesQueued(c, k) + TimesForwarded(c, k) + TimesAnswered(c, k) = 1

\* C2: every request execute() removes from a client request queue is
\* delivered exactly once: to exactly one worker request sink or as exactly
\* one response in its client's response sink, never both, never none, never
\* twice; the requests removed are the requests emitted.
C2_ExactlyOnce == [][ExactlyOnceStep]_vars /\ []Conservation

\* requests of both clients have been removed and forwarded
C2_Witness ==
    /\ num_clients = 2
    /\ \A c \in Clients : nsub[c] = MaxReq /\ Queued(c) = <<>>
    /\ \E i, j \in 1 .. Len(log) : log[i].client # log[j].client

\* C3: a request is removed from a client's request queue only in a state
\* where the request sink of the worker advertising that request's type has
\* capacity; while a worker's sink is full execute() dequeues from no client
\* whose head request targets that worker.
C3_DequeueOnlyWithCapacity ==
    [][\A c \in ClientIdx :
          (DequeuesFrom(c) /\ Claiming(Queued(c)[1].type) # {})
              => SinkReady(WorkerFor(Queued(c)[1].type))]_vars

\* client x is blocked on a full sink while client y is ready for another
\* worker, and every head request has a worker
BlockedAndReady(x, y) ==
    /\ x \in Clients /\ y \in Clients /\ x # y
    /\ \A c \in Clients : HasHead(c) => Claiming(PeekHead(c).type) # {}
    /\ HasHead(x) /\ ~SinkReady(WorkerFor(PeekHead(x).type))
    /\ PollClient(y) = "ready"

\* this step completes an execute() that forwards the head request of a
\* ready client to the worker advertising its type
ForwardsAReadyClient ==
    /\ pc' = "idle"
    /\ \E y \in Clients :
          /\ PollClient(y) = "ready"
          /\ DequeuesFrom(y)
          /\ SinkGets(WorkerFor(PeekHead(y).type), PeekHead(y))

\* C4: no head-of-line blocking across workers: when some client's head
\* request targets a worker whose sink is full and another client's head
\* request targets a worker with capacity, execute() completes and forwards
\* that other client's request to its worker.
C4_NoHeadOfLineBlocking ==
    [][((ExecuteCall \/ SelectWake) /\ \E x, y \in ClientIdx : BlockedAndReady(x, y))
          => ForwardsAReadyClient]_vars

\* C5: round-robin coverage: with K >= 2 clients that all have a head request
\* for one worker with capacity >= K at each of the first K completed
\* execute() calls, those calls dequeue from each client exactly once, each
\* from the cyclic successor of the one before.
C5_RoundRobinCoverage ==
    (/\ num_clients >= 2
     /\ Len(log) >= num_clients
     /\ sink_cap[log[1].worker] >= num_clients
     /\ \A i \in 1 .. num_clients : log[i].allsame)
        => /\ \A c \in Clients :
                 Cardinality({i \in 1 .. num_clients : log[i].client = c}) = 1
           /\ \A i \in 1 .. (num_clients - 1) :
                 log[i + 1].client = (log[i].client + 1) % num_clients

\* C6: after every completed execute(), last_client_id is the table index of
\* the client whose queue the forwarded request was dequeued from.
C6_CursorIsDequeuedClient ==
    (pc = "idle" /\ log # <<>>) => last_client_id = log[Len(log)].client

\* C7: per-client FIFO at the worker: the requests of one client whose type
\* a worker advertises appear in that worker's request sink in the order the
\* client submitted them.
C7_PerClientFifo ==
    /\ \A i, j \in 1 .. Len(log) :
          (/\ i < j
           /\ log[i].worker = log[j].worker
           /\ log[i].request.origin = log[j].request.origin
           /\ log[i].request.type \in req_types[log[i].worker]
           /\ log[j].request.type \in req_types[log[j].worker])
              => log[i].request.request_id < log[j].request.request_id
    /\ \A w \in WorkerIdx : \A i, j \in 1 .. Len(worker_requests[w]) :
          (/\ i < j
           /\ worker_requests[w][i].origin = worker_requests[w][j].origin
           /\ worker_requests[w][i].type \in req_types[w]
           /\ worker_requests[w][j].type \in req_types[w])
              => worker_requests[w][i].request_id < worker_requests[w][j].request_id

\* a worker was sent two requests of one client, both of a type it
\* advertises and both still in its sink, and a request of another client
C7_Witness ==
    \E w \in Workers :
        /\ Len(worker_requests[w]) = 2
        /\ worker_requests[w][1].origin = worker_requests[w][2].origin
        /\ \A i \in 1 .. 2 : worker_requests[w][i].type \in req_types[w]
        /\ \E k \in 1 .. Len(log) :
              /\ log[k].worker = w
              /\ log[k].request.origin # worker_requests[w][1].origin

\* C10: every request the core places into a worker request sink carries a
\* client_id equal to the table index of the client channel it was dequeued
\* from, whatever client_id the client wrote.
C10_ClientIdStamped ==
    /\ \A i \in 1 .. Len(log) : log[i].request.client_id = log[i].client
    /\ \A w \in WorkerIdx : \A i \in 1 .. Len(worker_requests[w]) :
          worker_requests[w][i].client_id = worker_requests[w][i].origin
\* client c does not exist, or has a head request whose worker's sink has
\* capacity, while the core runs
ReadyOrAbsent(c) == Running /\ (c \in Clients => PollClient(c) = "ready")

\* C8: starvation freedom: if execute() is called repeatedly and every
\* client is ready infinitely often, every request of every client is
\* eventually dequeued and forwarded, so every client is dequeued from again
\* and again.
C8_StarvationFree ==
    \A c \in ClientIdx :
        ((\A d \in ClientIdx : []<>ReadyOrAbsent(d)) /\ <>(Running /\ c \in Clients))
            => []<><<DequeuesFrom(c)>>_vars

\* a worker has produced the response to request k of client 0
Produced(k) ==
    \E w \in Workers : \E i \in 1 .. Len(worker_responses[w]) :
        worker_responses[w][i] = [client_id |-> 0, request_id |-> k]

\* the response to request k has arrived in client 0's response sink
Arrived(k) ==
    \E j \in 1 .. Len(client_responses[0]) : client_responses[0][j].request_id = k

\* C9: responses are routed back: with a single client, every response a
\* worker produces for one of its requests eventually arrives in that
\* client's response sink, with the request's request_id.
C9_ResponsesRoutedBack ==
    \A k \in 1 .. MaxReq :
        (Running /\ num_clients = 1 /\ Produced(k)) ~> Arrived(k)

\* the response the core makes up itself for request: Response::ImportKey, or
\* Response::Error with the error kind, with the request's ids
CoreResponse(request, kind) ==
    [client_id |-> request.client_id, request_id |-> request.request_id,
     kind |-> kind]

\* this step removes the head request of client c and that request is ImportKey
DequeuesImportKey(c) == DequeuesFrom(c) /\ Queued(c)[1].type = "ImportKey"

\* C11: with no key store attached, when execute() removes a head request
\* ImportKey{request_id = r} from a client's queue it appends
\* Response::Error{client_id, request_id = r, NoKeyStore} to that client's
\* response sink and leaves every worker request sink unchanged.
C11_NoKeyStoreError ==
    [][\A c \in ClientIdx :
          (key_store = "none" /\ DequeuesImportKey(c))
              => /\ client_responses'[c] =
                       Append(client_responses[c],
                              CoreResponse(Queued(c)[1], "Error::NoKeyStore"))
                 /\ worker_requests' = worker_requests]_vars

\* C12: ImportKey round trip: with a key store attached and its mutex free,
\* when execute() processes a client's ImportKey request the next response
\* appended to that client's response sink is Response::ImportKey with the
\* request's client_id and request_id, or, if import fails, Response::Error
\* with KeyStore(e) and the same ids.
C12_ImportKeyRoundTrip ==
    [][\A c \in ClientIdx :
          (key_store = "free" /\ DequeuesImportKey(c))
              => \E kind \in {"ImportKey", "Error::KeyStore"} :
                    client_responses'[c] =
                        Append(client_responses[c],
                               CoreResponse(Queued(c)[1], kind))]_vars

\* C14: key-store mutex contention is not fatal: while another task holds
\* the key-store mutex the core does not abort on an ImportKey head request
\* and does not take it out of the client's queue; the request stays pending
\* for a later execute().
C14_ContendedRequestStaysPending ==
    [][\A c \in ClientIdx :
          (/\ key_store = "locked"
           /\ Queued(c) # <<>>
           /\ Queued(c)[1].type = "ImportKey"
           /\ Claiming("ImportKey") # {})
              => ~DequeuesFrom(c)]_vars

\* the first future select_array finds not Pending stops at the lookup of a
\* worker for its head request's type: no worker advertises it
UnknownTypeFirst ==
    /\ num_clients >= 1
    /\ Decided # {}
    /\ PollClient(Rotated(Min(Decided))) = "panic"

\* C13: an unknown request type is recoverable: when execute() meets a head
\* request whose type no registered worker advertises, it removes the request
\* from the client's queue and appends an Error::UnknownRequestType response
\* to that client's response sink; the core does not abort.
C13_UnknownTypeRecoverable ==
    [][((ExecuteCall \/ SelectWake) /\ UnknownTypeFirst)
          => LET c == Rotated(Min(Decided)) IN
             /\ pc' # "panicked"
             /\ DequeuesFrom(c)
             /\ client_responses'[c] =
                   Append(client_responses[c],
                          CoreResponse(Queued(c)[1], "Error::UnknownRequestType"))]_vars

\* types shares a tag with the req_types of a registered worker
Overlaps(types) == \E w \in Workers : req_types[w] \cap types # {}

\* a with_worker call whose types overlap a registered worker's panics and
\* registers nothing
DuplicateRejected ==
    \A types \in SUBSET RequestType, cap \in 1 .. WorkerQueueCap :
        (with_worker(types, cap) /\ Overlaps(types))
            => /\ pc' = "panicked"
               /\ UNCHANGED <<num_workers, req_types>>

AtMostOneWorkerPerType == \A t \in RequestType : Cardinality(Claiming(t)) <= 1

\* C15: unique type-to-worker mapping: a with_worker call whose req_types
\* shares a tag with a previously registered worker panics and registers
\* nothing; in every Core returned by build() each RequestType is advertised
\* by at most one worker.
C15_UniqueTypeMapping == [][DuplicateRejected]_vars /\ []AtMostOneWorkerPerType

\* the Builder panicked with room left in both tables and before any request
\* was sent: a second with_worker call repeated a tag of the first
C15_Witness ==
    /\ pc = "panicked"
    /\ num_clients = 1
    /\ num_workers = 1
    /\ \A c \in ClientIdx : nsub[c] = 0

\* C16: cursor bounds: in every state of a built Core, directly after build()
\* and after any execute() calls, last_client_id < number of clients and
\* last_worker_id < number of workers, for every topology the Builder accepts.
C16_CursorBounds ==
    Running => (last_client_id < num_clients /\ last_worker_id < num_workers)

\* no client has a head request whose resolved worker's sink has capacity
NoClientReady ==
    \A c \in Clients :
        ~(/\ HasHead(c)
          /\ Claiming(PeekHead(c).type) # {}
          /\ SinkReady(WorkerFor(PeekHead(c).type)))

\* C17: idle execute() is a no-op: if no client is ready, execute() stays in
\* its await state and changes nothing: both cursors, every client's pending
\* requests, every worker request sink and every response queue are as before.
C17_IdleExecuteNoOp ==
    [][((ExecuteCall \/ SelectWake) /\ num_clients >= 1 /\ NoClientReady)
          => /\ pc' = "select"
             /\ \A c \in ClientIdx :
                   QueuedOf(peeked', client_requests', c) = Queued(c)
             /\ UNCHANGED <<cursors, worker_requests, client_responses,
                            worker_responses>>]_vars

ReadyClients == {c \in Clients : PollClient(c) = "ready"}

\* the first ready client in the cyclic order last_client_id + 1, + 2, ...
FirstReady ==
    Rotated(Min({p \in 0 .. (num_clients - 1) : PollClient(Rotated(p)) = "ready"}))

\* C19: tie-breaking: when several clients are ready as execute() selects,
\* the request dequeued and forwarded is the head request of the first ready
\* client in the cyclic order last_client_id + 1, last_client_id + 2, ...
\* (mod number of clients), and it goes to the worker advertising its type.
C19_TieBreaking ==
    [][(/\ ExecuteCall \/ SelectWake
        /\ Cardinality(ReadyClients) >= 2
        /\ \A c \in Clients : HasHead(c) => Claiming(PeekHead(c).type) # {})
          => /\ DequeuesFrom(FirstReady)
             /\ SinkGets(WorkerFor(PeekHead(FirstReady).type),
                         PeekHead(FirstReady))]_vars

\* this step leaves every client's pending requests and every worker sink as
\* they are
QueuesKept ==
    /\ \A c \in ClientIdx : QueuedOf(peeked', client_requests', c) = Queued(c)
    /\ worker_requests' = worker_requests

\* while execute() is suspended in the dequeue, the sink it will send to has
\* the capacity poll_ready reported, so the send completes with the dequeue
SendHasCapacity == pc = "next" => SinkReady(sel_worker)

C20_CursorMovesWithForward ==
    [][last_client_id' # last_client_id
          => \E w \in WorkerIdx :
                Len(worker_requests'[w]) = Len(worker_requests[w]) + 1]_vars

\* with one client: the cursor is 0, and the i-th forward is the client's
\* i-th request, sent to a worker that advertises its type
SingleClientInOrder ==
    num_clients = 1
        => /\ last_client_id = 0
           /\ \A i \in 1 .. Len(log) :
                 /\ log[i].client = 0
                 /\ log[i].request.origin = 0
                 /\ log[i].request.request_id = i
                 /\ log[i].request.type \in req_types[log[i].worker]

\* C21: single client, several workers: with exactly one client and workers
\* advertising disjoint type sets, repeated execute() forwards the client's
\* requests one per call, each to the worker advertising its type, in the
\* client's submission order, and last_client_id stays 0.
C21_SingleClientSeveralWorkers ==
    /\ []SingleClientInOrder
    /\ [][num_clients = 1 => Len(log') <= Len(log) + 1]_vars

\* the one client's two requests went to two different workers
C21_Witness ==
    /\ num_clients = 1
    /\ num_workers = 2
    /\ Len(log) = 2
    /\ log[1].worker # log[2].worker

\* C22: the Builder accepts a topology with zero clients: build() succeeds
\* without any with_client call; on such a Core the first execute() aborts
\* on the remainder by zero instead of suspending, and changes nothing.
C22_ZeroClientsAbort ==
    [][/\ (build /\ num_clients = 0) => (pc' = "idle" /\ num_clients' = 0)
       /\ (ExecuteCall /\ num_clients = 0)
          => (pc' = "panicked" /\ UNCHANGED <<cursors, queues>>)]_vars

\* a Core without clients and workers was built and its execute() aborted
C22_Witness ==
    /\ pc = "panicked"
    /\ num_clients = 0
    /\ num_workers = 0

\* client c's request stream has ended and nothing of it is left to take
EndedAndEmpty(c) == c \in Clients /\ stream_ended[c] /\ ~HasHead(c)

====
